---- MODULE Spec2Model ----
(***************************************************************************)
(* Model of github.com/romshark/httpsim: the request matcher (Match,       *)
(* MatchResource, GlobExpression.Match), the effect applier                *)
(* (Middleware.apply), the randomness source (internal/rand: NewSeed,      *)
(* Source.Dur, Source.Bool) and the middleware (Middleware.ServeHTTP,      *)
(* Middleware.SetConfig).  Four specifications: SpecMatch (the matcher),   *)
(* SpecRand (the randomness source), SpecSeed (NewSeed) and Spec (the      *)
(* middleware with concurrent requests).                                   *)
(*                                                                         *)
(* Conventions.  A Go string is a sequence of one-character strings.  A Go *)
(* pointer that may be nil is a sequence of length 0 (nil) or 1 (the       *)
(* pointee).  Go slices are sequences; a Go index i is the TLA+ index i+1. *)
(***************************************************************************)
EXTENDS Integers, Sequences, FiniteSets, TLC

VARIABLES
  mconf,    \* SpecMatch: the *config.Config handed to Match
  mreq,     \* SpecMatch: the *http.Request handed to Match
  mout,     \* SpecMatch: <<>> before the call, <<result>> after it
  versions, \* every Config stored in Middleware.config; the last is current
  given,    \* every Config handed to NewMiddleware and SetConfig, in order
  stores,   \* the number of SetConfig calls made
  seed,     \* the Seed the randomness sources were constructed from
  rnd,      \* the state of the stream behind Middleware.rand
  pc,       \* per request: where its ServeHTTP call is
  req,      \* per request: the *http.Request
  conf,     \* per request: the local conf (an index of versions, 0: not loaded)
  matched,  \* per request: the local matchedResourceIndex
  effect,   \* per request: the *config.Effect handed to apply
  delay,    \* per request: the local delay of apply
  ctxInfo,  \* per request: the local ctxInfo
  rctx,     \* per request: the value under CtxKeyInfo of the request context
  w,        \* per request: the http.ResponseWriter
  slept,    \* per request: the durations handed to Sleeper.Sleep
  next,     \* per request: what each call of the next handler was given
  seen,     \* per request: the stream state its running Dur call has read
  drew,     \* per request: the Dur calls that returned (min, max, result)
  streams,  \* SpecRand: the stream state behind each Source
  rlog,     \* SpecRand: per Source, the calls made on it and their results
  sin,      \* SpecSeed: the string handed to NewSeed
  sout      \* SpecSeed: <<>> before the call, <<result>> after it

mvars == <<mconf, mreq, mout>>
pvars == <<seed, streams, rlog, sin, sout>>
svars == <<versions, given, stores, rnd>>
rvars == <<pc, req, conf, matched, effect, delay, ctxInfo, rctx, w, slept, next,
           seen, drew>>
vars == <<mvars, pvars, svars, rvars>>

(***************************************************************************)
(* Bounds of the model.                                                    *)
(***************************************************************************)
MaxStrLen == 2       \* longest request path
MaxVals == 2         \* most values of one header / parameter / pattern list
MaxResources == 2    \* most resources of a configuration handed to Match
MaxQueryPairs == 2   \* most key=value pairs of a raw query string
MaxStores == 2       \* most SetConfig calls of a run
DurBits == 4         \* width of time.Duration in the model (int64 in Go)
MaxCalls == 3        \* most calls made on one randomness Source
MaxSeedInput == 34   \* longest string handed to NewSeed

Chars == {"a", "b"}

RECURSIVE SeqsUpTo(_, _)
SeqsUpTo(S, n) ==
  IF n = 0 THEN {<<>>}
  ELSE LET shorter == SeqsUpTo(S, n - 1)
       IN  shorter \cup {Append(q, x) : q \in shorter, x \in S}

\* An arbitrary but fixed enumeration of a finite set: the order in which a Go
\* `range` over a map visits its entries is unspecified.
SetToSeq(S) ==
  CHOOSE f \in [1..Cardinality(S) -> S] :
    \A i, j \in 1..Cardinality(S) : f[i] = f[j] => i = j

(***************************************************************************)
(* config.GlobExpression.                                                  *)
(***************************************************************************)
NilGlob == <<>>
Glob(p) == <<p>>

\* (*g.glob).Match(s) of a compiled pattern: literal characters, and "*" for
\* any run of characters (the patterns are compiled without separators).
RECURSIVE CompiledGlobMatch(_, _)
CompiledGlobMatch(p, s) ==
  IF p = <<>> THEN s = <<>>
  ELSE IF Head(p) = "*"
       THEN \/ CompiledGlobMatch(Tail(p), s)
            \/ (s # <<>> /\ CompiledGlobMatch(p, Tail(s)))
       ELSE /\ s # <<>>
            /\ Head(s) = Head(p)
            /\ CompiledGlobMatch(Tail(p), Tail(s))

\* The mutant of GlobExpressionMatch: the nil check inverted.
GlobExpressionMatchNilRejects(g, s) ==
  IF g = NilGlob THEN FALSE ELSE CompiledGlobMatch(g[1], s)

GlobExpressionMatch(g, s) ==
  IF g = NilGlob THEN TRUE ELSE CompiledGlobMatch(g[1], s)

(***************************************************************************)
(* url.URL.Query(): the raw query, a sequence of <<key, value>> pairs in   *)
(* the order of the URL, grouped by key with the values in that order.     *)
(***************************************************************************)
RECURSIVE ValuesOfKey(_, _)
ValuesOfKey(raw, k) ==
  IF raw = <<>> THEN <<>>
  ELSE IF Head(raw)[1] = k
       THEN <<Head(raw)[2]>> \o ValuesOfKey(Tail(raw), k)
       ELSE ValuesOfKey(Tail(raw), k)

URLQuery(raw) ==
  [k \in {raw[i][1] : i \in 1..Len(raw)} |-> ValuesOfKey(raw, k)]

(***************************************************************************)
(* MatchResource.                                                          *)
(***************************************************************************)
SlicesContains(s, x) == \E i \in 1..Len(s) : s[i] = x

\* for i, val := range val { if !values[i].Match(val) { return false } }
RECURSIVE HeaderValuesLoop(_, _, _)
HeaderValuesLoop(values, val, i) ==
  IF i > Len(val) THEN TRUE
  ELSE IF ~GlobExpressionMatch(values[i], val[i]) THEN FALSE
  ELSE HeaderValuesLoop(values, val, i + 1)

\* The mutant of HeaderEntry: the count check only rejects too many values.
HeaderEntryPrefix(name, values, header, val) ==
  IF ~GlobExpressionMatch(name, header) THEN TRUE
  ELSE IF Len(val) > Len(values) THEN FALSE
  ELSE HeaderValuesLoop(values, val, 1)

\* The body of the inner header loop: FALSE is `return false`, TRUE goes on.
HeaderEntry(name, values, header, val) ==
  IF ~GlobExpressionMatch(name, header) THEN TRUE
  ELSE IF Len(val) # Len(values) THEN FALSE
  ELSE HeaderValuesLoop(values, val, 1)

\* for header, val := range r.Header { ... }
RECURSIVE RequestHeadersLoop(_, _, _, _)
RequestHeadersLoop(name, values, hdr, todo) ==
  IF todo = <<>> THEN TRUE
  ELSE IF ~HeaderEntry(name, values, Head(todo), hdr[Head(todo)]) THEN FALSE
  ELSE RequestHeadersLoop(name, values, hdr, Tail(todo))

\* for name, values := range c.Headers { ... }
RECURSIVE ConfigHeadersLoop(_, _)
ConfigHeadersLoop(todo, hdr) ==
  IF todo = <<>> THEN TRUE
  ELSE IF ~RequestHeadersLoop(Head(todo)[1], Head(todo)[2], hdr,
                              SetToSeq(DOMAIN hdr)) THEN FALSE
  ELSE ConfigHeadersLoop(Tail(todo), hdr)

RECURSIVE QueryValuesLoop(_, _, _)
QueryValuesLoop(values, val, i) ==
  IF i > Len(val) THEN TRUE
  ELSE IF ~GlobExpressionMatch(values[i], val[i]) THEN FALSE
  ELSE QueryValuesLoop(values, val, i + 1)

\* The mutant of QueryEntry: the count check only rejects too many values.
QueryEntryPrefix(name, values, parameter, val) ==
  IF ~GlobExpressionMatch(name, parameter) THEN TRUE
  ELSE IF Len(val) > Len(values) THEN FALSE
  ELSE QueryValuesLoop(values, val, 1)

\* The body of the inner query loop.
QueryEntry(name, values, parameter, val) ==
  IF ~GlobExpressionMatch(name, parameter) THEN TRUE
  ELSE IF Len(val) # Len(values) THEN FALSE
  ELSE QueryValuesLoop(values, val, 1)

\* for parameter, val := range r.URL.Query() { ... }
RECURSIVE RequestQueryLoop(_, _, _, _)
RequestQueryLoop(name, values, query, todo) ==
  IF todo = <<>> THEN TRUE
  ELSE IF ~QueryEntry(name, values, Head(todo), query[Head(todo)]) THEN FALSE
  ELSE RequestQueryLoop(name, values, query, Tail(todo))

\* for name, values := range c.Query { ... }
RECURSIVE ConfigQueryLoop(_, _)
ConfigQueryLoop(todo, raw) ==
  IF todo = <<>> THEN TRUE
  ELSE IF ~RequestQueryLoop(Head(todo)[1], Head(todo)[2], URLQuery(raw),
                            SetToSeq(DOMAIN URLQuery(raw))) THEN FALSE
  ELSE ConfigQueryLoop(Tail(todo), raw)

\* strings.ToUpper on the methods of the model.
ToUpper(m) == IF m = "get" THEN "GET" ELSE m

\* The mutant of MatchResource: the method is compared ignoring case.
MatchResourceFoldCase(r, c) ==
  IF Len(c.Methods) > 0 /\ ~SlicesContains(c.Methods, ToUpper(r.Method))
  THEN FALSE
  ELSE IF ~GlobExpressionMatch(c.Path, r.Path) THEN FALSE
  ELSE IF ~ConfigHeadersLoop(SetToSeq(c.Headers), r.Header) THEN FALSE
  ELSE IF ~ConfigQueryLoop(SetToSeq(c.Query), r.RawQuery) THEN FALSE
  ELSE TRUE

MatchResource(r, c) ==
  IF Len(c.Methods) > 0 /\ ~SlicesContains(c.Methods, r.Method) THEN FALSE
  ELSE IF ~GlobExpressionMatch(c.Path, r.Path) THEN FALSE
  ELSE IF ~ConfigHeadersLoop(SetToSeq(c.Headers), r.Header) THEN FALSE
  ELSE IF ~ConfigQueryLoop(SetToSeq(c.Query), r.RawQuery) THEN FALSE
  ELSE TRUE

(***************************************************************************)
(* Match: the Go index of the first matching resource, or -1.              *)
(***************************************************************************)
RECURSIVE MatchLoop(_, _, _)
MatchLoop(r, resources, i) ==
  IF i > Len(resources) THEN -1
  ELSE IF MatchResource(r, resources[i]) THEN i - 1
  ELSE MatchLoop(r, resources, i + 1)

\* The mutant of Match: the scan goes on after a match (the last match wins).
RECURSIVE MatchLastLoop(_, _, _, _)
MatchLastLoop(r, resources, i, found) ==
  IF i > Len(resources) THEN found
  ELSE MatchLastLoop(r, resources, i + 1,
                     IF MatchResource(r, resources[i]) THEN i - 1 ELSE found)

MatchLast(r, c) == MatchLastLoop(r, c.Resources, 1, -1)

Match(r, c) == MatchLoop(r, c.Resources, 1)

(***************************************************************************)
(* config.Resource, config.Effect, config.Replace, config.DurRange and     *)
(* http.Request, as far as the matcher and the applier read them.          *)
(***************************************************************************)
NoEffect == <<>>
NoDelay == <<>>
NoReplace == <<>>
NoBody == <<>>

DurRange(min, max) == [Min |-> min, Max |-> max]
Replace(code, body, headers) ==
  [StatusCode |-> code, Body |-> body, Headers |-> headers]
Effect(del, rep) == <<[Delay |-> del, Replace |-> rep]>>

Resource(methods, path, headers, query, eff) ==
  [Methods |-> methods, Path |-> path, Headers |-> headers, Query |-> query,
   Effect |-> eff]

Config(resources) == [Resources |-> resources]

Request(method, path, header, raw) ==
  [Method |-> method, Path |-> path, Header |-> header, RawQuery |-> raw]

Opt(S) == {<<>>} \cup {<<x>> : x \in S}

NoHeaders == [n \in {} |-> <<>>]

(***************************************************************************)
(* The inputs of the matcher's specification.                              *)
(***************************************************************************)
RequestMethods == {"GET", "POST", "DELETE", "get"}
MethodLists == {<<>>, <<"GET">>, <<"POST", "DELETE">>}
PathGlobs == {NilGlob, Glob(<<"a">>), Glob(<<"a", "*">>)}
Paths == SeqsUpTo(Chars, MaxStrLen)

NameA == <<"a">>
NameB == <<"b">>
Values == {<<"a">>, <<"a", "b">>, <<"b">>}
ValueGlobs == {NilGlob, Glob(<<"a">>), Glob(<<"a", "*">>)}

\* A map with the keys NameA (when la is set) and NameB (when lb is set).
TwoKeyMap(la, lb) ==
  [n \in {x \in {NameA, NameB} : IF x = NameA THEN la # <<>> ELSE lb # <<>>}
     |-> IF n = NameA THEN la[1] ELSE lb[1]]

RequestHeaderMaps ==
  {TwoKeyMap(la, lb) : la \in Opt(SeqsUpTo(Values, MaxVals)),
                       lb \in Opt({<<<<"a">>>>, <<<<"b">>>>})}

\* A glob map with the keys "a" (when pa is set) and "*" (when ps is set).
GlobMap(pa, ps) ==
  (IF pa = <<>> THEN {} ELSE {<<Glob(NameA), pa[1]>>})
  \cup (IF ps = <<>> THEN {} ELSE {<<Glob(<<"*">>), ps[1]>>})

GlobMaps ==
  {GlobMap(pa, ps) : pa \in Opt(SeqsUpTo(ValueGlobs, MaxVals)),
                     ps \in Opt({<<NilGlob>>, <<Glob(<<"a", "*">>)>>})}

RawQueries ==
  SeqsUpTo({NameA, NameB} \X {<<"a">>, <<"a", "b">>}, MaxQueryPairs)

SampleEffects ==
  {Effect(<<DurRange(1, 2)>>, NoReplace),
   Effect(NoDelay, <<Replace(404, NoBody, [n \in {} |-> ""])>>)}

\* Resources that constrain the method and the path, or carry an effect.
PlainResources ==
  {Resource(m, p, {}, {}, NoEffect) : m \in MethodLists, p \in PathGlobs}
  \cup {Resource(<<>>, NilGlob, {}, {}, e) : e \in SampleEffects}

MatchInputs ==
  \* configurations of several resources, requests of any method and path
  ({Config(rs) : rs \in SeqsUpTo(PlainResources, MaxResources)}
     \X {Request(m, p, NoHeaders, <<>>) : m \in RequestMethods, p \in Paths})
  \cup
  \* one resource with header constraints, requests with headers
  ({Config(<<Resource(<<>>, NilGlob, h, {}, NoEffect)>>) : h \in GlobMaps}
     \X {Request("GET", <<>>, h, <<>>) : h \in RequestHeaderMaps})
  \cup
  \* one resource with query constraints, requests with a query
  ({Config(<<Resource(<<>>, NilGlob, {}, q, NoEffect)>>) : q \in GlobMaps}
     \X {Request("GET", <<>>, NoHeaders, raw) : raw \in RawQueries})

(***************************************************************************)
(* internal/rand.Source.  time.Duration is a signed integer of DurBits     *)
(* bits that wraps on overflow.  The ChaCha8 stream is a deterministic     *)
(* sequence of raw values fixed by the seed; Int64N(n) panics for n <= 0   *)
(* and otherwise reduces one raw value into [0, n).                        *)
(***************************************************************************)
DurMin == -(2 ^ (DurBits - 1))
DurMax == (2 ^ (DurBits - 1)) - 1
Wrap(x) == ((x - DurMin) % (2 ^ DurBits)) + DurMin

StreamStates == 0..DurMax
StreamValue(s) == s
StreamNext(s) == (5 * s + 3) % (DurMax + 1)

\* The mutant of SourceDur: a degenerate range consumes a raw value too.
SourceDurAlwaysDraws(s, min, max) ==
  IF min >= max THEN [panic |-> FALSE, d |-> min, rnd |-> StreamNext(s)]
  ELSE LET delta == Wrap(max - min)
       IN  IF delta <= 0 THEN [panic |-> TRUE, d |-> 0, rnd |-> s]
           ELSE [panic |-> FALSE,
                 d |-> Wrap(min + (StreamValue(s) % delta)),
                 rnd |-> StreamNext(s)]

\* Source.Dur on stream state s: whether it panics, the duration it
\* returns, and the stream state it leaves.
SourceDur(s, min, max) ==
  IF min >= max THEN [panic |-> FALSE, d |-> min, rnd |-> s]
  ELSE LET delta == Wrap(max - min)
       IN  IF delta <= 0 THEN [panic |-> TRUE, d |-> 0, rnd |-> s]
           ELSE [panic |-> FALSE,
                 d |-> Wrap(min + (StreamValue(s) % delta)),
                 rnd |-> StreamNext(s)]

\* Source.Bool on stream state s: s.r.IntN(2) == 1.
SourceBool(s) == [b |-> (StreamValue(s) % 2) = 1, rnd |-> StreamNext(s)]

\* The two Sources of the randomness specification.
Sources == {"A", "B"}

\* The mutant of StreamOf: every Source holds the one package-level stream.
StreamOfShared(x) == "A"

\* The generator behind Source x: NewSourceChaCha8 gives each Source a
\* generator of its own (Source.r).
StreamOf(x) == x

\* NewSourceChaCha8(seed): the state of a generator fresh from the seed.
NewSourceChaCha8(sd) == sd

\* The durations the randomness specification calls Dur with.
DurArgs == {DurMin, -1, 1, DurMax}

\* One call on a Source as the log keeps it.
DurCall(min, max, s, out) ==
  [op |-> "Dur", min |-> min, max |-> max, panic |-> out.panic, d |-> out.d,
   b |-> FALSE, before |-> s, after |-> out.rnd]
BoolCall(s, out) ==
  [op |-> "Bool", min |-> 0, max |-> 0, panic |-> FALSE, d |-> 0,
   b |-> out.b, before |-> s, after |-> out.rnd]

(***************************************************************************)
(* NewSeed.  A string is a sequence of bytes; the Seed is an array of      *)
(* SeedLen bytes, zero before the copy.                                    *)
(***************************************************************************)
SeedLen == 32
ZeroByte == "NUL"

\* copy(seed[:], s): the first min(SeedLen, len(s)) bytes of s, in order.
CopySeed(s) ==
  [i \in 1..SeedLen |-> IF i <= Len(s) THEN s[i] ELSE ZeroByte]

\* The mutant of NewSeed: only a string that is too short is refused.
NewSeedTruncates(s) ==
  IF Len(s) < SeedLen THEN [panic |-> TRUE, seed |-> <<>>]
  ELSE [panic |-> FALSE, seed |-> CopySeed(s)]

\* func NewSeed(s string) Seed
NewSeed(s) ==
  IF Len(s) # SeedLen THEN [panic |-> TRUE, seed |-> <<>>]
  ELSE [panic |-> FALSE, seed |-> CopySeed(s)]

\* The string of n bytes that repeats the pattern p.
SeedString(n, p) == [i \in 1..n |-> p[((i - 1) % Len(p)) + 1]]

SeedPatterns == {<<"a">>, <<"a", "b">>, <<"0", "1", "2">>}

SeedInputs ==
  {SeedString(n, p) : n \in 0..MaxSeedInput, p \in SeedPatterns}

(***************************************************************************)
(* http.ResponseWriter: the header map, and a status that is committed     *)
(* once, by the first WriteHeader or by the first Write (as 200).          *)
(***************************************************************************)
StatusOK == 200
SniffedContentType == "text/plain; charset=utf-8"

\* textproto.CanonicalMIMEHeaderKey on the header names of the model.
CanonicalKey(k) == IF k = "x-custom" THEN "X-Custom" ELSE k

\* httptest.NewRecorder(): nothing written yet, and Code is 200 from the
\* start.
NewResponseWriter ==
  [header |-> [n \in {} |-> ""], wroteHeader |-> FALSE, code |-> StatusOK,
   sent |-> [n \in {} |-> ""], body |-> <<>>, calls |-> <<>>]

\* w.Header().Set(k, v)
HeaderSet(rw, k, v) ==
  [rw EXCEPT !.header = [n \in DOMAIN rw.header \cup {CanonicalKey(k)} |->
                           IF n = CanonicalKey(k) THEN v ELSE rw.header[n]],
             !.calls = Append(rw.calls, "Set")]

\* The commit of the status line: ignored once a status is committed.
Commit(rw, code) ==
  IF rw.wroteHeader THEN rw
  ELSE [rw EXCEPT !.wroteHeader = TRUE, !.code = code, !.sent = rw.header]

\* w.WriteHeader(code)
WriteHeader(rw, code) ==
  [Commit(rw, code) EXCEPT !.calls = Append(rw.calls, "WriteHeader")]

\* w.Write(b): commits 200 first when no status is committed yet, with a
\* sniffed Content-Type when none is set.
Write(rw, b) ==
  LET typed == IF rw.wroteHeader \/ "Content-Type" \in DOMAIN rw.header
               THEN rw
               ELSE [rw EXCEPT !.header =
                       [n \in DOMAIN rw.header \cup {"Content-Type"} |->
                          IF n = "Content-Type" THEN SniffedContentType
                          ELSE rw.header[n]]]
      committed == Commit(typed, StatusOK)
  IN  [committed EXCEPT !.body = Append(rw.body, b),
                        !.calls = Append(rw.calls, "Write")]

\* for header, value := range c.Replace.Headers { w.Header().Set(...) }
RECURSIVE SetHeadersLoop(_, _, _)
SetHeadersLoop(rw, headers, order) ==
  IF order = <<>> THEN rw
  ELSE SetHeadersLoop(HeaderSet(rw, Head(order), headers[Head(order)]),
                      headers, Tail(order))

Orders(S) ==
  {f \in [1..Cardinality(S) -> S] :
     \A i, j \in 1..Cardinality(S) : f[i] = f[j] => i = j}

(***************************************************************************)
(* CtxInfo and CtxInfoValue.                                               *)
(***************************************************************************)
CtxInfo(index, d, replaced) ==
  [MatchedResourceIndex |-> index, Delay |-> d, Replaced |-> replaced]

NoCtxValue == <<>>

\* The mutant of CtxInfoValue: the zero CtxInfo when no value is attached.
CtxInfoValueZero(ctx) ==
  IF ctx # NoCtxValue THEN ctx[1] ELSE CtxInfo(0, 0, FALSE)

CtxInfoValue(ctx) ==
  IF ctx # NoCtxValue THEN ctx[1] ELSE CtxInfo(-1, 0, FALSE)

(***************************************************************************)
(* The middleware: the configurations and requests of its specification.   *)
(***************************************************************************)
Reqs == {"r1", "r2"}

HeadersReadme == [n \in {"Content-Type", "x-custom"} |->
                    IF n = "Content-Type" THEN "text/plain" ELSE "custom"]

\* DELETE /a is replaced by a 404 with a body and headers (the README's rule).
ResourceNotFound ==
  Resource(<<"DELETE">>, Glob(<<"a">>), {}, {},
           Effect(NoDelay, <<Replace(404, <<"not found">>, HeadersReadme)>>))
\* Any method on a path that starts with "a" is delayed.
ResourceDelay ==
  Resource(<<>>, Glob(<<"a", "*">>), {}, {},
           Effect(<<DurRange(1, 3)>>, NoReplace))
\* GET is matched without an effect.
ResourceNoEffect == Resource(<<"GET">>, NilGlob, {}, {}, NoEffect)
\* Anything is replaced by a 204 without a body.
ResourceStatusOnly ==
  Resource(<<>>, NilGlob, {}, {},
           Effect(NoDelay, <<Replace(204, NoBody, [n \in {} |-> ""])>>))
\* GET is delayed by a fixed duration and replaced by a 500 with a body.
ResourceDelayReplace ==
  Resource(<<"GET">>, NilGlob, {}, {},
           Effect(<<DurRange(2, 2)>>,
                  <<Replace(500, <<"replaced body">>, [n \in {} |-> ""])>>))
\* DELETE is delayed by a range wider than the largest duration.
ResourceWideDelay ==
  Resource(<<"DELETE">>, NilGlob, {}, {},
           Effect(<<DurRange(DurMin, 1)>>, NoReplace))

ConfigSet ==
  {Config(<<ResourceNotFound, ResourceDelay>>),
   Config(<<ResourceNoEffect, ResourceStatusOnly>>),
   Config(<<ResourceDelayReplace, ResourceWideDelay>>)}

RequestSet ==
  {Request("DELETE", <<"a">>, NoHeaders, <<>>),
   Request("GET", <<"a">>, NoHeaders, <<>>),
   Request("POST", <<>>, NoHeaders, <<>>)}

Seeds == {0, 1, 2}

(***************************************************************************)
(* NewMiddleware, SetConfig and ServeHTTP.                                 *)
(***************************************************************************)
\* The state of the request variables before ServeHTTP is called.
RequestsAt(requests) ==
  /\ pc = [r \in Reqs |-> "load"]
  /\ req = requests
  /\ conf = [r \in Reqs |-> 0]
  /\ matched = [r \in Reqs |-> -1]
  /\ effect = [r \in Reqs |-> NoEffect]
  /\ delay = [r \in Reqs |-> 0]
  /\ ctxInfo = [r \in Reqs |-> CtxInfo(-1, 0, FALSE)]
  /\ rctx = [r \in Reqs |-> NoCtxValue]
  /\ w = [r \in Reqs |-> NewResponseWriter]
  /\ slept = [r \in Reqs |-> <<>>]
  /\ next = [r \in Reqs |-> <<>>]
  /\ seen = [r \in Reqs |-> 0]
  /\ drew = [r \in Reqs |-> <<>>]

\* The randomness Sources and NewSeed while they are not exercised.
RandIdle ==
  /\ streams = [x \in Sources |-> 0]
  /\ rlog = [x \in Sources |-> <<>>]
SeedIdle ==
  /\ sin = <<>>
  /\ sout = <<>>
\* The matcher while it is not exercised.
MatcherIdle ==
  /\ mconf = Config(<<>>)
  /\ mreq = Request("GET", <<>>, NoHeaders, <<>>)
  /\ mout = <<>>

\* NewMiddleware(next, c, sleeper, rnd), and one request per goroutine.
Init ==
  /\ \E c \in ConfigSet : versions = <<c>> /\ given = <<c>>
  /\ stores = 0
  /\ seed \in Seeds
  /\ rnd = NewSourceChaCha8(seed)
  /\ \E requests \in [Reqs -> RequestSet] : RequestsAt(requests)
  /\ MatcherIdle
  /\ RandIdle
  /\ SeedIdle

\* The mutant of SetConfig: the stored Config is overwritten in place.
SetConfigInPlace(c) ==
  /\ stores < MaxStores
  /\ stores' = stores + 1
  /\ versions' = [versions EXCEPT ![Len(versions)] = c]
  /\ given' = Append(given, c)
  /\ UNCHANGED <<rnd, mvars, pvars, rvars>>

\* The mutant of SetConfig: only the resources that the current Config does
\* not have yet are published.
SetConfigDelta(c) ==
  /\ stores < MaxStores
  /\ stores' = stores + 1
  /\ LET current == versions[Len(versions)].Resources IN
       versions' =
         Append(versions,
                Config(SelectSeq(c.Resources,
                                 LAMBDA x : \A k \in 1..Len(current) :
                                              current[k] # x)))
  /\ given' = Append(given, c)
  /\ UNCHANGED <<rnd, mvars, pvars, rvars>>

\* func (m *Middleware) SetConfig(c config.Config) { m.config.Store(&c) }
SetConfig(c) ==
  /\ stores < MaxStores
  /\ stores' = stores + 1
  /\ versions' = Append(versions, c)
  /\ given' = Append(given, c)
  /\ UNCHANGED <<rnd, mvars, pvars, rvars>>

\* *conf: the Config a request's local conf points to.
Snapshot(r) == versions[conf[r]]

\* conf := m.config.Load().(*config.Config)
Load(r) ==
  /\ pc[r] = "load"
  /\ conf' = [conf EXCEPT ![r] = Len(versions)]
  /\ pc' = [pc EXCEPT ![r] = "match"]
  /\ UNCHANGED <<mvars, pvars, svars, req, matched, effect, delay, ctxInfo,
                 rctx, w, slept, next, seen, drew>>

\* matchedResourceIndex := Match(r, conf); ctxInfo := CtxInfo{...}
DoMatch(r) ==
  /\ pc[r] = "match"
  /\ LET i == Match(req[r], Snapshot(r)) IN
       /\ matched' = [matched EXCEPT ![r] = i]
       /\ IF i # -1
          THEN /\ ctxInfo' = [ctxInfo EXCEPT ![r] = CtxInfo(i, 0, FALSE)]
               /\ pc' = [pc EXCEPT ![r] = "effect"]
          ELSE /\ ctxInfo' = ctxInfo
               /\ pc' = [pc EXCEPT ![r] = "forward"]
  /\ UNCHANGED <<mvars, pvars, svars, req, conf, effect, delay, rctx, w,
                 slept, next, seen, drew>>

\* Where apply goes once the delay is dealt with.
AfterDelay(e) == IF e[1].Replace # NoReplace THEN "headers" ELSE "return"

\* effect := conf.Resources[matchedResourceIndex].Effect; if effect != nil
\* { ... m.apply(w, effect) }.  An index out of range panics.
LookupEffect(r) ==
  /\ pc[r] = "effect"
  /\ IF matched[r] + 1 \in 1..Len(Snapshot(r).Resources)
     THEN LET e == Snapshot(r).Resources[matched[r] + 1].Effect IN
            /\ effect' = [effect EXCEPT ![r] = e]
            /\ pc' = [pc EXCEPT ![r] =
                 IF e = NoEffect THEN "attach"
                 ELSE IF e[1].Delay # NoDelay THEN "draw" ELSE AfterDelay(e)]
     ELSE /\ effect' = effect
          /\ pc' = [pc EXCEPT ![r] = "panicked"]
  /\ UNCHANGED <<mvars, pvars, svars, req, conf, matched, delay, ctxInfo,
                 rctx, w, slept, next, seen, drew>>

\* The range of the delay of request r's effect.
DelayMin(r) == effect[r][1].Delay[1].Min
DelayMax(r) == effect[r][1].Delay[1].Max

\* delay = m.rand.Dur(c.Delay.Min, c.Delay.Max), up to its read of the
\* stream: a degenerate range returns at once, a delta that Int64N refuses
\* panics, and otherwise the generator's state is read.  The generator is a
\* *rand.Rand shared by the goroutines without a lock, so the read and the
\* write of its state are two steps.
DrawBegin(r) ==
  /\ pc[r] = "draw"
  /\ LET out == SourceDur(rnd, DelayMin(r), DelayMax(r)) IN
       IF out.panic
       THEN /\ pc' = [pc EXCEPT ![r] = "panicked"]
            /\ UNCHANGED <<delay, seen, drew>>
       ELSE IF DelayMin(r) >= DelayMax(r)
       THEN /\ delay' = [delay EXCEPT ![r] = out.d]
            /\ drew' = [drew EXCEPT ![r] =
                          Append(drew[r], [min |-> DelayMin(r),
                                           max |-> DelayMax(r), d |-> out.d])]
            /\ pc' = [pc EXCEPT ![r] = "sleep"]
            /\ seen' = seen
       ELSE /\ seen' = [seen EXCEPT ![r] = rnd]
            /\ pc' = [pc EXCEPT ![r] = "drawing"]
            /\ UNCHANGED <<delay, drew>>
  /\ UNCHANGED <<mvars, pvars, svars, req, conf, matched, effect, ctxInfo,
                 rctx, w, slept, next>>

\* The rest of the Dur call: the raw value of the state that was read is
\* reduced into the range, and the state that follows it is written back.
DrawEnd(r) ==
  /\ pc[r] = "drawing"
  /\ LET out == SourceDur(seen[r], DelayMin(r), DelayMax(r)) IN
       /\ rnd' = out.rnd
       /\ delay' = [delay EXCEPT ![r] = out.d]
       /\ drew' = [drew EXCEPT ![r] =
                     Append(drew[r], [min |-> DelayMin(r),
                                      max |-> DelayMax(r), d |-> out.d])]
       /\ pc' = [pc EXCEPT ![r] = "sleep"]
  /\ UNCHANGED <<mvars, pvars, versions, given, stores, req, conf, matched,
                 effect, ctxInfo, rctx, w, slept, next, seen>>

\* m.sleeper.Sleep(delay): the call
Sleep(r) ==
  /\ pc[r] = "sleep"
  /\ slept' = [slept EXCEPT ![r] = Append(slept[r], delay[r])]
  /\ pc' = [pc EXCEPT ![r] = "sleeping"]
  /\ UNCHANGED <<mvars, pvars, svars, req, conf, matched, effect, delay,
                 ctxInfo, rctx, w, next, seen, drew>>

\* m.sleeper.Sleep(delay): the return
Wake(r) ==
  /\ pc[r] = "sleeping"
  /\ pc' = [pc EXCEPT ![r] = AfterDelay(effect[r])]
  /\ UNCHANGED <<mvars, pvars, svars, req, conf, matched, effect, delay,
                 ctxInfo, rctx, w, slept, next, seen, drew>>

\* for header, value := range c.Replace.Headers { w.Header().Set(...) }
SetHeaders(r) ==
  /\ pc[r] = "headers"
  /\ LET rep == effect[r][1].Replace[1] IN
       /\ \E order \in Orders(DOMAIN rep.Headers) :
            w' = [w EXCEPT ![r] = SetHeadersLoop(w[r], rep.Headers, order)]
       /\ pc' = [pc EXCEPT ![r] =
                 IF rep.Body # NoBody THEN "body" ELSE "status"]
  /\ UNCHANGED <<mvars, pvars, svars, req, conf, matched, effect, delay,
                 ctxInfo, rctx, slept, next, seen, drew>>

\* if c.Replace.Body != nil { _, _ = w.Write([]byte(*c.Replace.Body)) }
WriteBody(r) ==
  /\ pc[r] = "body"
  /\ w' = [w EXCEPT ![r] = Write(w[r], effect[r][1].Replace[1].Body[1])]
  /\ pc' = [pc EXCEPT ![r] = "status"]
  /\ UNCHANGED <<mvars, pvars, svars, req, conf, matched, effect, delay,
                 ctxInfo, rctx, slept, next, seen, drew>>

\* w.WriteHeader(int(c.Replace.StatusCode)); return delay, true
WriteStatus(r) ==
  /\ pc[r] = "status"
  /\ w' = [w EXCEPT ![r] = WriteHeader(w[r], effect[r][1].Replace[1].StatusCode)]
  /\ ctxInfo' = [ctxInfo EXCEPT ![r].Delay = delay[r], ![r].Replaced = TRUE]
  /\ pc' = [pc EXCEPT ![r] = "attach"]
  /\ UNCHANGED <<mvars, pvars, svars, req, conf, matched, effect, delay, rctx,
                 slept, next, seen, drew>>

\* The mutant of ReturnNotReplaced: the status is committed as 200 before
\* apply returns.
ReturnNotReplacedCommits(r) ==
  /\ pc[r] = "return"
  /\ w' = [w EXCEPT ![r] = WriteHeader(w[r], StatusOK)]
  /\ ctxInfo' = [ctxInfo EXCEPT ![r].Delay = delay[r], ![r].Replaced = FALSE]
  /\ pc' = [pc EXCEPT ![r] = "attach"]
  /\ UNCHANGED <<mvars, pvars, svars, req, conf, matched, effect, delay, rctx,
                 slept, next, seen, drew>>

\* return delay, false
ReturnNotReplaced(r) ==
  /\ pc[r] = "return"
  /\ ctxInfo' = [ctxInfo EXCEPT ![r].Delay = delay[r], ![r].Replaced = FALSE]
  /\ pc' = [pc EXCEPT ![r] = "attach"]
  /\ UNCHANGED <<mvars, pvars, svars, req, conf, matched, effect, delay, rctx,
                 w, slept, next, seen, drew>>

\* ctx = context.WithValue(ctx, CtxKeyInfo, ctxInfo); r = r.WithContext(ctx);
\* if ctxInfo.Replaced { return }
Attach(r) ==
  /\ pc[r] = "attach"
  /\ rctx' = [rctx EXCEPT ![r] = <<ctxInfo[r]>>]
  /\ pc' = [pc EXCEPT ![r] = IF ctxInfo[r].Replaced THEN "done" ELSE "forward"]
  /\ UNCHANGED <<mvars, pvars, svars, req, conf, matched, effect, delay,
                 ctxInfo, w, slept, next, seen, drew>>

\* m.next.ServeHTTP(w, r): the next handler reads CtxInfoValue(r.Context())
\* and sees the response writer as the middleware left it.
Forward(r) ==
  /\ pc[r] = "forward"
  /\ next' = [next EXCEPT ![r] =
                Append(next[r], [info |-> CtxInfoValue(rctx[r]), w |-> w[r]])]
  /\ pc' = [pc EXCEPT ![r] = "done"]
  /\ UNCHANGED <<mvars, pvars, svars, req, conf, matched, effect, delay,
                 ctxInfo, rctx, w, slept, seen, drew>>

Next ==
  \/ \E c \in ConfigSet : SetConfig(c)
  \/ \E r \in Reqs :
       \/ Load(r)
       \/ DoMatch(r)
       \/ LookupEffect(r)
       \/ DrawBegin(r)
       \/ DrawEnd(r)
       \/ Sleep(r)
       \/ Wake(r)
       \/ SetHeaders(r)
       \/ WriteBody(r)
       \/ WriteStatus(r)
       \/ ReturnNotReplaced(r)
       \/ Attach(r)
       \/ Forward(r)

Spec == Init /\ [][Next]_vars

\* The middleware's variables while only the matcher is exercised.
MiddlewareIdle ==
  /\ versions = <<Config(<<>>)>>
  /\ given = <<Config(<<>>)>>
  /\ stores = 0
  /\ rnd = 0
  /\ RequestsAt([r \in Reqs |-> Request("GET", <<>>, NoHeaders, <<>>)])

(***************************************************************************)
(* The matcher's specification: Match and MatchResource called on one      *)
(* input.                                                                  *)
(***************************************************************************)
MatchInit ==
  /\ \E in \in MatchInputs : mconf = in[1] /\ mreq = in[2]
  /\ mout = <<>>
  /\ MiddlewareIdle
  /\ seed = 0
  /\ RandIdle
  /\ SeedIdle

\* i := Match(r, c), and MatchResource(r, &c.Resources[k]) for every k.
CallMatch ==
  /\ mout = <<>>
  /\ mout' = <<[index |-> Match(mreq, mconf),
                each |-> [k \in 1..Len(mconf.Resources) |->
                            MatchResource(mreq, mconf.Resources[k])]]>>
  /\ UNCHANGED <<mconf, mreq, pvars, svars, rvars>>

MatchNext == CallMatch

SpecMatch == MatchInit /\ [][MatchNext]_vars

(***************************************************************************)
(* The randomness specification: two Sources constructed from one seed.    *)
(* Source A is driven by any calls; Source B is driven by the calls that   *)
(* were made on A, in the same order.                                      *)
(***************************************************************************)
RandInit ==
  /\ seed \in Seeds
  /\ streams = [x \in Sources |-> NewSourceChaCha8(seed)]
  /\ rlog = [x \in Sources |-> <<>>]
  /\ MatcherIdle
  /\ MiddlewareIdle
  /\ SeedIdle

\* x.Dur(min, max)
CallDur(x, min, max) ==
  LET s == streams[StreamOf(x)]
      out == SourceDur(s, min, max)
  IN  /\ streams' = [streams EXCEPT ![StreamOf(x)] = out.rnd]
      /\ rlog' = [rlog EXCEPT ![x] = Append(rlog[x], DurCall(min, max, s, out))]
      /\ UNCHANGED <<seed, sin, sout, mvars, svars, rvars>>

\* x.Bool()
CallBool(x) ==
  LET s == streams[StreamOf(x)]
      out == SourceBool(s)
  IN  /\ streams' = [streams EXCEPT ![StreamOf(x)] = out.rnd]
      /\ rlog' = [rlog EXCEPT ![x] = Append(rlog[x], BoolCall(s, out))]
      /\ UNCHANGED <<seed, sin, sout, mvars, svars, rvars>>

DriveDur(min, max) ==
  /\ Len(rlog["A"]) < MaxCalls
  /\ CallDur("A", min, max)

DriveBool ==
  /\ Len(rlog["A"]) < MaxCalls
  /\ CallBool("A")

\* The next call of A's sequence, made on B.
Replay ==
  /\ Len(rlog["B"]) < Len(rlog["A"])
  /\ LET c == rlog["A"][Len(rlog["B"]) + 1] IN
       IF c.op = "Dur" THEN CallDur("B", c.min, c.max) ELSE CallBool("B")

RandNext ==
  \/ \E min, max \in DurArgs : DriveDur(min, max)
  \/ DriveBool
  \/ Replay

SpecRand == RandInit /\ [][RandNext]_vars

(***************************************************************************)
(* The seed specification: NewSeed called on one string.                   *)
(***************************************************************************)
SeedInit ==
  /\ sin \in SeedInputs
  /\ sout = <<>>
  /\ seed = 0
  /\ MatcherIdle
  /\ MiddlewareIdle
  /\ RandIdle

\* seed := NewSeed(s)
CallNewSeed ==
  /\ sout = <<>>
  /\ sout' = <<NewSeed(sin)>>
  /\ UNCHANGED <<seed, streams, rlog, sin, mvars, svars, rvars>>

SeedNext == CallNewSeed

SpecSeed == SeedInit /\ [][SeedNext]_vars

(***************************************************************************)
(* Properties of the matcher, checked under SpecMatch.                     *)
(***************************************************************************)
Called == mout # <<>>
Each(k) == mout[1].each[k]
Resources == mconf.Resources

\* Position by position, every value matches the pattern at its index.
ValuesMatch(patterns, val) ==
  /\ Len(val) = Len(patterns)
  /\ \A i \in 1..Len(val) : GlobExpressionMatch(patterns[i], val[i])

\* The values a raw query supplies for one key, in the order of the URL.
Supplied(raw, key) ==
  LET at == SelectSeq([i \in 1..Len(raw) |-> i], LAMBDA i : raw[i][1] = key)
  IN  [j \in 1..Len(at) |-> raw[at[j]][2]]

QueryKeys(raw) == {raw[i][1] : i \in 1..Len(raw)}

Without(hdr, h) == [n \in DOMAIN hdr \ {h} |-> hdr[n]]

\* C1: Match returns the lowest Go index whose resource MatchResource
\* accepts, and -1 exactly when MatchResource accepts no resource.
FirstMatchWins ==
  Called =>
    LET hits == {k \in 1..Len(Resources) : Each(k)}
    IN  IF hits = {} THEN mout[1].index = -1
        ELSE /\ mout[1].index + 1 \in hits
             /\ \A k \in hits : mout[1].index + 1 <= k

\* C1 witness: two resources with different effects both match, the first wins.
FirstMatchWinsWitness ==
  /\ Called
  /\ Len(Resources) >= 2
  /\ Each(1) /\ Each(2)
  /\ Resources[1].Effect # Resources[2].Effect
  /\ mout[1].index = 0

\* C2: with no other constraint configured, MatchResource accepts exactly when
\* every request header whose name matches a configured name pattern has as
\* many values as the pattern list and each value matches the pattern at its
\* position; a request header that matches no name pattern changes nothing.
HeaderCheckExact ==
  Called =>
    \A k \in 1..Len(Resources) :
      LET c == Resources[k] IN
      /\ (c.Methods = <<>> /\ c.Path = NilGlob /\ c.Query = {}) =>
           (Each(k) <=>
              \A e \in c.Headers : \A h \in DOMAIN mreq.Header :
                GlobExpressionMatch(e[1], h) => ValuesMatch(e[2], mreq.Header[h]))
      /\ \A h \in DOMAIN mreq.Header :
           (\A e \in c.Headers : ~GlobExpressionMatch(e[1], h)) =>
             MatchResource([mreq EXCEPT !.Header = Without(mreq.Header, h)], c)
               = Each(k)

\* C2 witness: a header with two values is accepted by two patterns that
\* would reject the same values in the other order.
HeaderCheckExactWitness ==
  /\ Called
  /\ Len(Resources) = 1
  /\ Each(1)
  /\ \E e \in Resources[1].Headers : \E h \in DOMAIN mreq.Header :
       /\ GlobExpressionMatch(e[1], h)
       /\ Len(e[2]) = 2 /\ Len(mreq.Header[h]) = 2
       /\ ~GlobExpressionMatch(e[2][1], mreq.Header[h][2])

\* C3: with no other constraint configured, MatchResource accepts exactly when
\* every query parameter whose name matches a configured name pattern is
\* supplied as many times as the pattern list is long and each supplied value
\* matches the pattern at its position.
QueryExactCardinality ==
  Called =>
    \A k \in 1..Len(Resources) :
      LET c == Resources[k] IN
      (c.Methods = <<>> /\ c.Path = NilGlob /\ c.Headers = {}) =>
        (Each(k) <=>
           \A e \in c.Query : \A p \in QueryKeys(mreq.RawQuery) :
             GlobExpressionMatch(e[1], p) =>
               ValuesMatch(e[2], Supplied(mreq.RawQuery, p)))

\* C3 witness: one pattern is configured, the request supplies two values of
\* which the first matches, and the resource is rejected.
QueryExactCardinalityWitness ==
  /\ Called
  /\ Len(Resources) = 1
  /\ ~Each(1)
  /\ \E e \in Resources[1].Query : \E p \in QueryKeys(mreq.RawQuery) :
       /\ GlobExpressionMatch(e[1], p)
       /\ Len(e[2]) = 1 /\ Len(Supplied(mreq.RawQuery, p)) = 2
       /\ GlobExpressionMatch(e[2][1], Supplied(mreq.RawQuery, p)[1])
  /\ Cardinality(Resources[1].Query) = 1

\* C8: a resource that configures a header or query constraint matches only
\* requests that carry a header or parameter of that name with matching values.
ConstraintRequiresPresence ==
  Called =>
    \A k \in 1..Len(Resources) :
      Each(k) =>
        /\ \A e \in Resources[k].Headers : \E h \in DOMAIN mreq.Header :
             GlobExpressionMatch(e[1], h) /\ ValuesMatch(e[2], mreq.Header[h])
        /\ \A e \in Resources[k].Query : \E p \in QueryKeys(mreq.RawQuery) :
             /\ GlobExpressionMatch(e[1], p)
             /\ ValuesMatch(e[2], Supplied(mreq.RawQuery, p))

\* C9: a resource with a non-empty method list matches only a request whose
\* method equals one of the listed methods; with an empty list the request
\* method does not change the result.
MethodCheckExact ==
  Called =>
    \A k \in 1..Len(Resources) :
      LET c == Resources[k] IN
      /\ (c.Methods # <<>> /\ Each(k)) =>
           \E i \in 1..Len(c.Methods) : c.Methods[i] = mreq.Method
      /\ c.Methods = <<>> =>
           \A m \in RequestMethods :
             MatchResource([mreq EXCEPT !.Method = m], c) = Each(k)

\* C9 witness: the request method is the second of two listed methods and the
\* resource matches.
MethodCheckExactWitness ==
  /\ Called
  /\ \E k \in 1..Len(Resources) :
       /\ Len(Resources[k].Methods) = 2
       /\ Resources[k].Methods[2] = mreq.Method
       /\ Each(k)

\* C10: a resource with an uninitialized path matches whatever the request
\* path is; the catch-all resource (no methods, uninitialized path, no header
\* and no query constraints) matches every request.
UninitializedGlobMatchesAll ==
  Called =>
    \A k \in 1..Len(Resources) :
      LET c == Resources[k] IN
      /\ (c.Methods = <<>> /\ c.Path = NilGlob /\ c.Headers = {} /\ c.Query = {})
           => Each(k)
      /\ c.Path = NilGlob =>
           \A p \in Paths : MatchResource([mreq EXCEPT !.Path = p], c) = Each(k)

\* C10 witness: the catch-all resource matches a request with the empty path.
UninitializedGlobMatchesAllWitness ==
  /\ Called
  /\ \E k \in 1..Len(Resources) :
       /\ Resources[k].Methods = <<>> /\ Resources[k].Path = NilGlob
       /\ Resources[k].Headers = {} /\ Resources[k].Query = {}
       /\ Each(k)
  /\ mreq.Path = <<>>
  /\ mreq.Method = "get"

(***************************************************************************)
(* Properties of the middleware, checked under Spec.                       *)
(***************************************************************************)
Finished(r) == pc[r] \in {"done", "panicked"}

\* The effect the request's own snapshot configures for its matched resource.
SnapshotEffect(r) == Snapshot(r).Resources[matched[r] + 1].Effect

InApply(r) ==
  pc[r] \in {"draw", "drawing", "sleep", "sleeping", "headers", "body",
             "status", "return"}

\* C4: once apply has replaced the response, the committed status is the
\* configured status code, the body is exactly the configured body (empty when
\* none is configured), every configured header is sent with its configured
\* value, and the next handler is not invoked.
ReplacementCommitted ==
  \A r \in Reqs :
    ctxInfo[r].Replaced =>
      LET rep == effect[r][1].Replace[1] IN
      /\ w[r].wroteHeader
      /\ w[r].code = rep.StatusCode
      /\ w[r].body = (IF rep.Body = NoBody THEN <<>> ELSE <<rep.Body[1]>>)
      /\ \A n \in DOMAIN rep.Headers :
           /\ CanonicalKey(n) \in DOMAIN w[r].sent
           /\ w[r].sent[CanonicalKey(n)] = rep.Headers[n]
      /\ next[r] = <<>>

\* C5: a request that has ended was either replaced, and the next handler was
\* never invoked, or forwarded, and the next handler was invoked exactly once;
\* the next handler is never invoked for an effect that defines a replacement.
ExactlyOneOutcome ==
  \A r \in Reqs :
    /\ Finished(r) =>
         \/ (ctxInfo[r].Replaced /\ Len(next[r]) = 0)
         \/ (~ctxInfo[r].Replaced /\ Len(next[r]) = 1)
    /\ (effect[r] # NoEffect /\ effect[r][1].Replace # NoReplace) =>
         Len(next[r]) = 0
    /\ Len(next[r]) <= 1

\* The invariant of C6: what a request has computed derives from the one
\* Config its local conf points to.
SnapshotInv ==
  \A r \in Reqs :
    /\ pc[r] = "load" <=> conf[r] = 0
    /\ conf[r] \in 0..Len(versions)
    /\ pc[r] \notin {"load", "match"} =>
         /\ matched[r] = Match(req[r], Snapshot(r))
         /\ matched[r] # -1 => ctxInfo[r].MatchedResourceIndex = matched[r]
    /\ InApply(r) => (effect[r] # NoEffect /\ effect[r] = SnapshotEffect(r))
    /\ slept[r] # <<>> =>
         /\ SnapshotEffect(r)[1].Delay # NoDelay
         /\ \A i \in 1..Len(slept[r]) :
              /\ SnapshotEffect(r)[1].Delay[1].Min <= slept[r][i]
              /\ slept[r][i] <= SnapshotEffect(r)[1].Delay[1].Max
    /\ w[r].calls # <<>> => SnapshotEffect(r)[1].Replace # NoReplace
    /\ w[r].wroteHeader =>
         w[r].code \in {StatusOK, SnapshotEffect(r)[1].Replace[1].StatusCode}
    /\ rctx[r] # NoCtxValue =>
         /\ rctx[r][1].MatchedResourceIndex = matched[r]
         /\ rctx[r][1].Replaced <=>
              (SnapshotEffect(r) # NoEffect
                 /\ SnapshotEffect(r)[1].Replace # NoReplace)

\* C6: under every interleaving of SetConfig with the requests, a request
\* loads the configuration once (its local conf never changes afterwards), its
\* matched index, its effect and its outcome derive from that one Config, and
\* SetConfig is enabled whatever the requests are doing.
SnapshotConsistency ==
  /\ []SnapshotInv
  /\ [][\A r \in Reqs : conf[r] # 0 => conf'[r] = conf[r]]_vars
  /\ [](stores < MaxStores => \A c \in ConfigSet : ENABLED SetConfig(c))

\* C6 witness: a request sleeps on the effect of its snapshot while a Config
\* that would not match it has been stored.
SnapshotConsistencyWitness ==
  \E r \in Reqs :
    /\ pc[r] = "sleeping"
    /\ conf[r] < Len(versions)
    /\ matched[r] # -1
    /\ Match(req[r], versions[Len(versions)]) # matched[r]
    /\ \E q \in Reqs : q # r /\ pc[q] = "match" /\ conf[q] = Len(versions)

\* C7: whenever the next handler is invoked, CtxInfoValue of the forwarded
\* request gives the index Match returned for the request (-1 when nothing
\* matched), the duration handed to the sleeper (0 when it did not sleep) and
\* Replaced = false; without an attached value it gives {-1, 0, false}.
ForwardedCtxInfo ==
  /\ CtxInfoValue(NoCtxValue) = CtxInfo(-1, 0, FALSE)
  /\ \A r \in Reqs : \A i \in 1..Len(next[r]) :
       /\ next[r][i].info.MatchedResourceIndex = Match(req[r], Snapshot(r))
       /\ next[r][i].info.Delay =
            (IF slept[r] = <<>> THEN 0 ELSE slept[r][Len(slept[r])])
       /\ Len(slept[r]) <= 1
       /\ next[r][i].info.Replaced = FALSE

\* C7 witness: a request matched by the second resource is forwarded after a
\* sleep of more than the minimum of the configured range.
ForwardedCtxInfoWitness ==
  \E r \in Reqs :
    /\ next[r] # <<>>
    /\ next[r][1].info.MatchedResourceIndex = 1
    /\ slept[r] # <<>> /\ next[r][1].info.Delay = slept[r][1]
    /\ slept[r][1] > SnapshotEffect(r)[1].Delay[1].Min
    /\ \E q \in Reqs : next[q] # <<>> /\ next[q][1].info = CtxInfo(-1, 0, FALSE)

(***************************************************************************)
(* Properties of the randomness Source, checked under SpecRand.            *)
(***************************************************************************)
\* What a logged call returned.
Output(c) == [panic |-> c.panic, d |-> c.d, b |-> c.b]
Outputs(log) == [i \in 1..Len(log) |-> Output(log[i])]

IsDegenerate(c) == c.op = "Dur" /\ c.min >= c.max

\* The calls of a log without the calls of a degenerate range.
Strip(log) == SelectSeq(log, LAMBDA c : ~IsDegenerate(c))

\* What the calls of a log return on a Source whose stream is in state s.
RECURSIVE Rerun(_, _)
Rerun(s, log) ==
  IF log = <<>> THEN <<>>
  ELSE LET c == Head(log) IN
       IF c.op = "Dur"
       THEN LET out == SourceDur(s, c.min, c.max) IN
            <<Output(DurCall(c.min, c.max, s, out))>>
              \o Rerun(out.rnd, Tail(log))
       ELSE LET out == SourceBool(s) IN
            <<Output(BoolCall(s, out))>> \o Rerun(out.rnd, Tail(log))

\* C11: whatever the seed and the calls made before, a Dur call with
\* min >= max returns min without a panic and leaves the stream where it was,
\* and the other calls of the run return what they return on a Source of the
\* same seed on which the degenerate calls are not made.
DegenerateRange ==
  /\ \A x \in Sources : \A i \in 1..Len(rlog[x]) :
       IsDegenerate(rlog[x][i]) =>
         /\ ~rlog[x][i].panic
         /\ rlog[x][i].d = rlog[x][i].min
         /\ rlog[x][i].after = rlog[x][i].before
  /\ Outputs(Strip(rlog["A"]))
       = Rerun(NewSourceChaCha8(seed), Strip(rlog["A"]))

\* C11 witness: a draw, then a degenerate call, then a draw from the state
\* the first draw left.
DegenerateRangeWitness ==
  /\ Len(rlog["A"]) = 3
  /\ ~IsDegenerate(rlog["A"][1]) /\ rlog["A"][1].after # rlog["A"][1].before
  /\ IsDegenerate(rlog["A"][2]) /\ rlog["A"][2].min > rlog["A"][2].max
  /\ rlog["A"][3].op = "Dur" /\ ~IsDegenerate(rlog["A"][3])
  /\ ~rlog["A"][3].panic
  /\ rlog["A"][3].before = rlog["A"][1].after

\* C12: a Dur call with min < max, a range that DurRange.Validate accepts,
\* does not panic and returns a duration d with min <= d < max.
SamplingRange ==
  \A x \in Sources : \A i \in 1..Len(rlog[x]) :
    (rlog[x][i].op = "Dur" /\ rlog[x][i].min < rlog[x][i].max) =>
      /\ ~rlog[x][i].panic
      /\ rlog[x][i].min <= rlog[x][i].d
      /\ rlog[x][i].d < rlog[x][i].max

\* C13: two Sources constructed from the same seed and driven by the same
\* calls in the same order return the same result at every call.
Reproducibility ==
  \A i \in 1..Len(rlog["B"]) :
    /\ rlog["B"][i].op = rlog["A"][i].op
    /\ rlog["B"][i].min = rlog["A"][i].min
    /\ rlog["B"][i].max = rlog["A"][i].max
    /\ Output(rlog["B"][i]) = Output(rlog["A"][i])

\* C13 witness: B has repeated two calls of A, a Dur and a Bool that drew
\* from different states of the stream, while A is a call ahead.
ReproducibilityWitness ==
  /\ Len(rlog["B"]) = 2 /\ Len(rlog["A"]) = 3
  /\ rlog["B"][1].op = "Dur" /\ ~IsDegenerate(rlog["B"][1])
  /\ ~rlog["B"][1].panic
  /\ rlog["B"][1].d # rlog["B"][1].min
  /\ rlog["B"][2].op = "Bool" /\ rlog["B"][2].b
  /\ rlog["B"][2].before # rlog["B"][1].before

(***************************************************************************)
(* Properties of NewSeed, checked under SpecSeed.                          *)
(***************************************************************************)
\* C14: NewSeed panics exactly for the strings whose length is not SeedLen,
\* the shorter and the longer ones, and for a string of SeedLen bytes it
\* returns a Seed whose bytes are the bytes of the string, in order.
SeedConstruction ==
  sout # <<>> =>
    /\ sout[1].panic <=> Len(sin) # SeedLen
    /\ ~sout[1].panic =>
         /\ Len(sout[1].seed) = SeedLen
         /\ \A i \in 1..SeedLen : sout[1].seed[i] = sin[i]

\* C14 witness: NewSeed has panicked on a string one byte too long.
SeedConstructionWitness ==
  /\ sout # <<>>
  /\ Len(sin) = SeedLen + 1
  /\ sout[1].panic

(***************************************************************************)
(* Properties of the effect applier and of republication, checked under    *)
(* Spec.                                                                   *)
(***************************************************************************)
HasDelay(r) == effect[r] # NoEffect /\ effect[r][1].Delay # NoDelay

\* C15: the next handler is handed a response writer on which no header was
\* set, no body written and no status committed; a request that nothing
\* matched goes on to the next handler without a sleep and without a Dur call.
SinkUntouched ==
  \A r \in Reqs :
    /\ \A i \in 1..Len(next[r]) : next[r][i].w = NewResponseWriter
    /\ (pc[r] \notin {"load", "match"} /\ matched[r] = -1) =>
         /\ pc[r] \in {"forward", "done"}
         /\ slept[r] = <<>>
         /\ drew[r] = <<>>
         /\ effect[r] = NoEffect

\* C15 witness: one request is forwarded after the sleep of a delay-only
\* effect, another is forwarded unmatched.
SinkUntouchedWitness ==
  /\ \E r \in Reqs :
       /\ next[r] # <<>>
       /\ HasDelay(r) /\ effect[r][1].Replace = NoReplace
       /\ slept[r] # <<>>
  /\ \E r \in Reqs : next[r] # <<>> /\ matched[r] = -1

\* C16: a request that loads the Config of a SetConfig call that repeats the
\* Config of the SetConfig call before it gets the matched index and the
\* effect it gets from the Config published by the earlier call.
IdempotentRepublication ==
  \A r \in Reqs :
    (conf[r] >= 3 /\ given[conf[r]] = given[conf[r] - 1]) =>
      /\ versions[conf[r]] = versions[conf[r] - 1]
      /\ pc[r] \notin {"load", "match"} =>
           matched[r] = Match(req[r], versions[conf[r] - 1])
      /\ (InApply(r) \/ effect[r] # NoEffect) =>
           effect[r] = versions[conf[r] - 1].Resources[matched[r] + 1].Effect

\* C16 witness: SetConfig was called twice with one Config that differs from
\* the initial one, and a request that loaded the second publication has
\* ended with a matched resource and its effect.
IdempotentRepublicationWitness ==
  \E r \in Reqs :
    /\ conf[r] = 3
    /\ given[3] = given[2] /\ given[2] # given[1]
    /\ pc[r] = "done"
    /\ matched[r] # -1
    /\ effect[r] # NoEffect

\* The place of a call on the response writer in the order of apply.
CallRank(c) == IF c = "Set" THEN 1 ELSE IF c = "Write" THEN 2 ELSE 3

\* C17: for a request whose effect has a delay, once the Dur call is over the
\* sleeper has been invoked exactly once, with the sampled duration, and it
\* has returned before the first call on the response writer; the calls on
\* the writer are the header sets, then the body write, then the status
\* write, and the status is committed by that last call, as the configured
\* code; the sampled delay is reported also for a replaced request.
EffectOrder ==
  \A r \in Reqs :
    /\ Len(slept[r]) <= 1
    /\ slept[r] # <<>> => (drew[r] # <<>> /\ slept[r][1] = drew[r][1].d)
    /\ (HasDelay(r) /\ pc[r] \notin {"draw", "drawing", "sleep"}) =>
         Len(slept[r]) = 1
    /\ w[r].calls # <<>> =>
         /\ pc[r] # "sleeping"
         /\ HasDelay(r) => slept[r] # <<>>
    /\ \A i, j \in 1..Len(w[r].calls) :
         i < j => /\ CallRank(w[r].calls[i]) <= CallRank(w[r].calls[j])
                  /\ CallRank(w[r].calls[j]) > 1 =>
                       w[r].calls[i] # w[r].calls[j]
    /\ w[r].wroteHeader =>
         /\ w[r].calls[Len(w[r].calls)] = "WriteHeader"
         /\ w[r].code = effect[r][1].Replace[1].StatusCode
    /\ ctxInfo[r].Replaced =>
         ctxInfo[r].Delay = (IF slept[r] = <<>> THEN 0 ELSE slept[r][1])

(***************************************************************************)
(* Properties of concurrent draws on the shared Source, checked under      *)
(* Spec.                                                                   *)
(***************************************************************************)
\* The requests whose Dur call has returned.
Drawers == {r \in Reqs : drew[r] # <<>>}

\* What the Dur calls of the requests return when they are made one after
\* the other, in the given order, on a stream in state s.
RECURSIVE SequentialDraws(_, _)
SequentialDraws(s, order) ==
  IF order = <<>> THEN <<>>
  ELSE LET c == drew[Head(order)][1]
           out == SourceDur(s, c.min, c.max)
       IN  <<out.d>> \o SequentialDraws(out.rnd, Tail(order))

\* C18: the durations that concurrent requests have drawn from the shared
\* Source are those of the same Dur calls made in some sequential order, each
\* lies in its own range, and a sleeping request does not keep another
\* request from drawing.
ConcurrentDraws ==
  /\ \E order \in Orders(Drawers) :
       \A i \in 1..Len(order) :
         SequentialDraws(NewSourceChaCha8(seed), order)[i] = drew[order[i]][1].d
  /\ \A r \in Drawers :
       drew[r][1].min < drew[r][1].max =>
         (drew[r][1].min <= drew[r][1].d /\ drew[r][1].d < drew[r][1].max)
  /\ \A r, q \in Reqs :
       (pc[r] = "sleeping" /\ pc[q] = "draw") => ENABLED DrawBegin(q)

====
